---- MODULE Spec2Model ----
(***************************************************************************)
(* A model of the medicosdoc directory scraper: medicosdoc_scraper.py      *)
(* (text normaliser, fetch_doctors generator, filter, record mapper,       *)
(* writer, run_specialties, main) and run_from_config.py (batch main).     *)
(*                                                                         *)
(* Text is a sequence of characters; a character is a one-token string.    *)
(* JSON values are tagged records [t, v]: "null" (a missing key or a JSON  *)
(* null, which dict.get does not tell apart), "str", "num", "bool", "obj". *)
(***************************************************************************)
EXTENDS Integers, Sequences, FiniteSets, TLC

VARIABLES
    mode,       \* "batch" (run_from_config.main), "single" (medicosdoc_scraper.main),
                \* "filter", "record" (the filter and the mapper called on their own)
    config,     \* the loaded configuration / parsed arguments
    pc,         \* position of the entry point
    dirIdx,     \* batch: index of the directory entry being processed
    specIdx,    \* run_specialties: index of the specialty being processed
    gen,        \* the fetch_doctors generator: position, total_pages, page, pending entries
    doctors,    \* list(...) of the entries yielded so far
    matches,    \* result of the last filter_by_specialty
    records,    \* result of the last to_record comprehension
    log,        \* HTTP requests, yields and writes, in program order
    files,      \* the output directory / destination: file name -> records written
    stdout,     \* what was written to standard output
    error       \* the exception that left the entry point, or "none"

vars == <<mode, config, pc, dirIdx, specIdx, gen, doctors, matches, records,
          log, files, stdout, error>>

-----------------------------------------------------------------------------
(* Text                                                                    *)

Null == [t |-> "null", v |-> <<>>]
Str(s) == [t |-> "str", v |-> s]
Num(n) == [t |-> "num", v |-> n]
Bool(b) == [t |-> "bool", v |-> b]
Obj(o) == [t |-> "obj", v |-> o]
Raised == [t |-> "raise", v |-> <<>>]
IsRaised(x) == x.t = "raise"

\* Python truthiness of a JSON value (objects of the model always carry keys).
Truthy(x) ==
    CASE x.t = "null" -> FALSE
      [] x.t = "str" -> x.v # <<>>
      [] x.t = "num" -> x.v # 0
      [] x.t = "bool" -> x.v
      [] OTHER -> TRUE

\* a or b
PyOr(a, b) == IF Truthy(a) THEN a ELSE b

\* d.get(k) on a mapping; None.get(k) and "text".get(k) raise AttributeError.
Get(d, k) ==
    IF d.t # "obj" THEN Raised
    ELSE IF k \in DOMAIN d.v THEN d.v[k] ELSE Null

\* x or {}: the empty mapping, every key of which is missing.
EmptyObj == Obj(<<>>)
\* x without the "or {}": what C7 rules out.
OrEmptyDropped(x) == x
OrEmpty(x) == IF Truthy(x) THEN x ELSE EmptyObj

RECURSIVE Flatten(_)
Flatten(ss) == IF ss = <<>> THEN <<>> ELSE Head(ss) \o Flatten(Tail(ss))

\* unicodedata.normalize("NFKD", c) for the characters of the model:
\* an accented letter decomposes into the letter and a combining mark, the
\* no-break space into a space (compatibility); the rest are unchanged.
Nfkd(c) ==
    CASE c = "e_acute" -> <<"e", "comb_acute">>
      [] c = "E_acute" -> <<"E", "comb_acute">>
      [] c = "nbsp" -> <<" ">>
      [] OTHER -> <<c>>

\* .encode("ascii", "ignore"): what is not ASCII is dropped.
NonAscii == {"comb_acute", "e_acute", "E_acute", "nbsp", "kanji"}
AsciiOnly(s) == SelectSeq(s, LAMBDA c : c \notin NonAscii)

\* str.lower() on ASCII
LowerChar(c) ==
    CASE c = "A" -> "a"
      [] c = "E" -> "e"
      [] c = "G" -> "g"
      [] OTHER -> c
Lower(s) == [i \in 1..Len(s) |-> LowerChar(s[i])]

IsSpace(c) == c = " "

\* str.strip()
RECURSIVE LStrip(_)
LStrip(s) == IF s # <<>> /\ IsSpace(Head(s)) THEN LStrip(Tail(s)) ELSE s
RECURSIVE RStrip(_)
RStrip(s) ==
    IF s # <<>> /\ IsSpace(s[Len(s)]) THEN RStrip(SubSeq(s, 1, Len(s) - 1)) ELSE s
Strip(s) == RStrip(LStrip(s))

\* _normalize_text(value): value is a text or None (value or "").
normalize_text(s) ==
    Strip(Lower(AsciiOnly(Flatten([i \in 1..Len(s) |-> Nfkd(s[i])]))))

\* str.split(): the maximal runs of non-space characters.
RECURSIVE SplitLoop(_, _, _)
SplitLoop(s, cur, acc) ==
    IF s = <<>> THEN (IF cur = <<>> THEN acc ELSE Append(acc, cur))
    ELSE IF IsSpace(Head(s))
         THEN SplitLoop(Tail(s), <<>>, IF cur = <<>> THEN acc ELSE Append(acc, cur))
         ELSE SplitLoop(Tail(s), Append(cur, Head(s)), acc)
Split(s) == SplitLoop(s, <<>>, <<>>)

\* "-".join(parts)
RECURSIVE Join(_)
Join(parts) ==
    IF parts = <<>> THEN <<>>
    ELSE IF Len(parts) = 1 THEN parts[1]
    ELSE parts[1] \o <<"-">> \o Join(Tail(parts))

Unknown == <<"u", "n", "k", "n", "o", "w", "n">>

\* _slugify(value)
slugify(s) ==
    LET joined == Join(SelectSeq(Split(normalize_text(s)), LAMBDA p : p # <<>>))
    IN  IF joined # <<>> THEN joined ELSE Unknown

\* target == text instead of target in text: what C6 rules out.
PyEquals(t, s) == t = s

\* target in text (Python substring test)
PyIn(t, s) ==
    \E i \in 0..(Len(s) - Len(t)) : SubSeq(s, i + 1, i + Len(t)) = t

-----------------------------------------------------------------------------
(* URLs: a parsed URL is [scheme, netloc, path], path a text with "/".      *)

Url(scheme, netloc, path) == [scheme |-> scheme, netloc |-> netloc, path |-> path]

\* urlunparse((scheme, netloc, path, "", "", ""))
UrlText(u) == <<u.scheme, "://">> \o u.netloc \o u.path

\* MedicosDocScraper._base_root(directory_url)
base_root(u) == Url(u.scheme, u.netloc, <<"/">>)

\* urljoin(base, ref) for a base whose path is "/": an empty reference is the
\* base, a reference with a scheme is itself, the others hang under the root.
urljoin(base, ref) ==
    IF ref = <<>> THEN UrlText(base)
    ELSE IF Len(ref) >= 2 /\ ref[2] = "://" THEN ref
    ELSE IF Head(ref) = "/" THEN <<base.scheme, "://">> \o base.netloc \o ref
    ELSE UrlText(base) \o ref

\* path.rsplit("/", 1)[-1]: what follows the last "/" (the whole text if none).
RECURSIVE LastSegment(_)
LastSegment(path) ==
    IF \A i \in 1..Len(path) : path[i] # "/" THEN path
    ELSE LastSegment(Tail(path))

-----------------------------------------------------------------------------
(* Filter and record mapper                                                *)

\* MedicosDocScraper._doctor_specialty(doctor)
doctor_specialty(doctor) ==
    LET specialty_data == OrEmpty(Get(OrEmpty(Get(doctor, "SubSpecialties")), "Specialty"))
    IN  PyOr(Get(specialty_data, "SpecialityNameEnglish"),
             Get(specialty_data, "SpecialityName"))

\* The loop of filter_by_specialty: entries with no specialty name are
\* skipped, the others are appended when the normalized target occurs in the
\* normalized name.
RECURSIVE filter_loop(_, _, _, _)
filter_loop(ds, target, i, acc) ==
    IF i > Len(ds) THEN acc
    ELSE LET specialty_name == doctor_specialty(ds[i])
         IN  IF ~Truthy(specialty_name) THEN filter_loop(ds, target, i + 1, acc)
             ELSE IF PyIn(target, normalize_text(specialty_name.v))
                  THEN filter_loop(ds, target, i + 1, Append(acc, ds[i]))
                  ELSE filter_loop(ds, target, i + 1, acc)

\* MedicosDocScraper.filter_by_specialty(doctors, specialty)
filter_by_specialty(ds, specialty) ==
    filter_loop(ds, normalize_text(specialty), 1, <<>>)

\* (x or "").strip() of a text or None; a non-text has no strip().
StripOf(x) ==
    LET y == PyOr(x, Str(<<>>))
    IN  IF y.t = "str" THEN Str(Strip(y.v)) ELSE Raised

\* MedicosDocScraper._build_name(doctor)
build_name(doctor) ==
    LET first == StripOf(Get(doctor, "Name"))
        last == StripOf(Get(doctor, "LastName"))
    IN  IF IsRaised(first) \/ IsRaised(last) THEN Raised
        ELSE Str(Strip(first.v \o <<" ">> \o last.v))

\* urljoin(base_root, doctor.get("Photos") or "")
photo_url(doctor, directory_url) ==
    LET photo == PyOr(Get(doctor, "Photos"), Str(<<>>))
    IN  IF photo.t = "str" THEN Str(urljoin(base_root(directory_url), photo.v))
        ELSE Raised

\* The localized name taken before the English one: what C10 rules out.
record_specialtyLocalFirst(doctor) ==
    LET specialty_data == OrEmpty(Get(OrEmpty(Get(doctor, "SubSpecialties")), "Specialty"))
    IN  PyOr(PyOr(Get(specialty_data, "SpecialityName"),
                  Get(specialty_data, "SpecialityNameEnglish")),
             Str(<<>>))

\* to_record: specialty = English name or localized name or ""
record_specialty(doctor) ==
    LET specialty_data == OrEmpty(Get(OrEmpty(Get(doctor, "SubSpecialties")), "Specialty"))
    IN  PyOr(PyOr(Get(specialty_data, "SpecialityNameEnglish"),
                  Get(specialty_data, "SpecialityName")),
             Str(<<>>))

\* The record built by to_record, as the list of its (key, value) items in
\* insertion order.
record_items(doctor, directory_url) ==
    LET head == OrEmpty(Get(doctor, "Headquarters"))
        ratings == OrEmpty(Get(doctor, "RatingsSummary"))
    IN  << <<"id", PyOr(Get(doctor, "ShortId"), Get(doctor, "_id"))>>,
           <<"name", build_name(doctor)>>,
           <<"specialty", record_specialty(doctor)>>,
           <<"city", Get(OrEmpty(Get(head, "CityId")), "Name")>>,
           <<"address", Get(head, "Address")>>,
           <<"medical_center", Get(head, "MedicalCenter")>>,
           <<"office", Get(head, "Office")>>,
           <<"highlighted_services",
             PyOr(Get(doctor, "HighlightedServicesEnglish"), Get(doctor, "HighlightedServices"))>>,
           <<"consult_value", Get(doctor, "ConsultValue")>>,
           <<"premium", Bool(Truthy(Get(doctor, "Premium")))>>,
           <<"rating_average", Get(ratings, "averageRating")>>,
           <<"rating_count", Get(ratings, "numberOfRatings")>>,
           <<"photo_url", photo_url(doctor, directory_url)>> >>

\* A record that leaves out its null fields: what C9 rules out.
to_recordSparse(doctor, directory_url) ==
    LET items == record_items(doctor, directory_url)
    IN  IF \E i \in 1..Len(items) : IsRaised(items[i][2]) THEN Raised
        ELSE [t |-> "record", v |-> SelectSeq(items, LAMBDA it : it[2].t # "null")]

\* MedicosDocScraper.to_record(doctor, directory_url): the record, or Raised
\* when an attribute access on a non-mapping raised.
to_record(doctor, directory_url) ==
    LET items == record_items(doctor, directory_url)
    IN  IF \E i \in 1..Len(items) : IsRaised(items[i][2]) THEN Raised
        ELSE [t |-> "record", v |-> items]

\* [scraper.to_record(doc, url) for doc in filtered]: the list, or Raised.
to_records(filtered, directory_url) ==
    LET rs == [i \in 1..Len(filtered) |-> to_record(filtered[i], directory_url)]
    IN  IF \E i \in 1..Len(rs) : IsRaised(rs[i]) THEN Raised ELSE Obj(rs)

-----------------------------------------------------------------------------
(* Writer                                                                  *)

\* write_output: the CSV header
fieldnames ==
    <<"id", "name", "specialty", "city", "address", "medical_center", "office",
      "highlighted_services", "consult_value", "premium", "rating_average",
      "rating_count", "photo_url">>

FieldSet == {fieldnames[j] : j \in 1..Len(fieldnames)}

\* rec.get(key, ""), the row value DictWriter takes for a column
RECURSIVE row_value(_, _, _)
row_value(items, key, i) ==
    IF i > Len(items) THEN Str(<<>>)
    ELSE IF items[i][1] = key THEN items[i][2]
    ELSE row_value(items, key, i + 1)

\* csv.DictWriter row: the values by fieldnames, "" for a missing key;
\* a key outside fieldnames raises ValueError.
csv_row(rec) ==
    IF \E i \in 1..Len(rec.v) : rec.v[i][1] \notin FieldSet
    THEN Raised
    ELSE [t |-> "row",
          v |-> [j \in 1..Len(fieldnames) |-> row_value(rec.v, fieldnames[j], 1)]]

\* The text write_output produces for the records: the JSON document, or the
\* CSV header and rows (Raised if a row raises).
output_content(recs, output_format) ==
    IF output_format = "json" THEN [t |-> "json", header |-> <<>>, rows |-> recs]
    ELSE LET rows == [i \in 1..Len(recs) |-> csv_row(recs[i])]
         IN  IF \E i \in 1..Len(rows) : IsRaised(rows[i]) THEN Raised
             ELSE [t |-> "csv", header |-> fieldnames, rows |-> rows]

-----------------------------------------------------------------------------
(* The origin site and the inputs of a run                                 *)

MaxTotalPages == 3
MaxPageLen == 2

Doctor(id, name, last, sub, head, hse, hs, cv, prem, ratings, photo) ==
    Obj([ShortId |-> id[1], _id |-> id[2], Name |-> name, LastName |-> last,
         SubSpecialties |-> sub, Headquarters |-> head,
         HighlightedServicesEnglish |-> hse, HighlightedServices |-> hs,
         ConsultValue |-> cv, Premium |-> prem, RatingsSummary |-> ratings,
         Photos |-> photo])

Category(english, localized) ==
    Obj([Specialty |-> Obj([SpecialityNameEnglish |-> english,
                            SpecialityName |-> localized])])

\* An entry of the listing that carries only an identifier, a name and a category.
Listed(n, sub) ==
    Doctor(<<Num(n), Null>>, Str(<<"A", "n", "a">>), Null, sub, Null, Null, Null,
           Null, Null, Null, Null)

Gyn == <<"G", "y", "n">>
Car == <<"c", "a", "r">>

\* The entries the site serves: which one stands at a place of a page is
\* fixed, how many a page holds is the site's choice.
SiteEntry(page, idx) ==
    LET k == (page + idx) % 3
    IN  CASE k = 0 -> Listed(10 * page + idx, Category(Str(Gyn), Null))
          [] k = 1 -> Listed(10 * page + idx, Null)
          [] OTHER -> Listed(10 * page + idx, Category(Null, Str(Car)))

PageData(page, n) == [i \in 1..n |-> SiteEntry(page, i)]

U1 == Url("https", <<"h", "1">>, <<"/", "e", "n", "/", "d", "i", "r">>)
U2 == Url("https", <<"h", "2">>, <<"/", "e", "s", "/", "d", "i", "r">>)
U3 == Url("https", <<"h", "1">>, <<"/", "e", "n", "/">>)

DirEntry(url, specs) ==
    [has_url |-> TRUE, url |-> url, specialties_kind |-> "list", specialties |-> specs]
NoUrl == [has_url |-> FALSE, url |-> U1, specialties_kind |-> "list", specialties |-> <<Gyn>>]
NoSpecialties ==
    [has_url |-> TRUE, url |-> U1, specialties_kind |-> "missing", specialties |-> <<>>]
SpecialtiesNotList ==
    [has_url |-> TRUE, url |-> U1, specialties_kind |-> "notlist", specialties |-> <<>>]

\* The "directories" arrays of the batch configurations explored.
DirLists ==
    { <<>>,
      <<DirEntry(U1, <<Gyn>>)>>,
      <<DirEntry(U1, <<Gyn, Car>>)>>,
      <<DirEntry(U1, <<Gyn>>), DirEntry(U2, <<Gyn>>)>>,
      <<DirEntry(U1, <<>>), DirEntry(U3, <<Car>>)>>,
      <<DirEntry(U1, <<Gyn>>), NoUrl>>,
      <<NoSpecialties, DirEntry(U1, <<Gyn>>)>>,
      <<DirEntry(U2, <<Car>>), SpecialtiesNotList>> }

NoCap == Null
OutDir == <<"o", "u", "t">>

\* config.get("output_format", "json"), config.get("max_pages"), config.get("output_dir")
\* A batch of several directories is explored with a cap, to keep the
\* number of histories of the earlier directories small.
BatchOptions ==
    { <<"json", NoCap, Str(OutDir)>>, <<"csv", Num(2), Str(OutDir)>>,
      <<"json", Num(1), Null>>, <<"json", Num(2), Null>> }
BatchConfigs ==
    { c \in { [directories |-> d, output_format |-> o[1], max_pages |-> o[2],
               output |-> o[3]] : d \in DirLists, o \in BatchOptions } :
        Len(c.directories) > 1 => c.max_pages # NoCap }

\* --url, --specialty, --format, --output, --max-pages
SingleArgs ==
    { [directories |-> <<DirEntry(U1, <<t>>)>>, output_format |-> f, max_pages |-> m,
       output |-> o] :
        t \in {Gyn}, f \in {"json", "csv"},
        m \in {NoCap} \cup {Num(k) : k \in 0..MaxTotalPages},
        o \in {Null, Str(<<"r", ".", "o", "u", "t">>)} }

-----------------------------------------------------------------------------
(* The run                                                                 *)

GenIdle ==
    [pc |-> "idle", suspended |-> FALSE, resumes |-> 0, total_pages |-> 0,
     pages_to_fetch |-> 0, page |-> 0, pending |-> <<>>]

Entry == config.directories[dirIdx]

Min(a, b) == IF a <= b THEN a ELSE b

\* pages_to_fetch without the cap: what C1 rules out.
pages_to_fetchUncapped(total_pages, max_pages) == total_pages

\* pages_to_fetch = total_pages if max_pages is None else min(total_pages, max_pages)
pages_to_fetch(total_pages, max_pages) ==
    IF max_pages.t = "null" THEN total_pages ELSE Min(total_pages, max_pages.v)

\* _validate_directories(entries): some entry makes it raise.
InvalidEntry(e) == ~e.has_url \/ e.specialties_kind # "list"
\* A validation that looks at the first entry only: what C4 rules out.
validate_directories_raisesFirstOnly(entries) ==
    entries # <<>> /\ InvalidEntry(entries[1])
validate_directories_raises(entries) ==
    \E i \in 1..Len(entries) : InvalidEntry(entries[i])

Abort(kind) ==
    /\ pc' = "aborted"
    /\ error' = kind

\* A request of page `page` (1: the directory's HTML) with its outcome, the
\* number of entries and the totalPages it returned, and how many entries
\* had been yielded when it was issued.
Request(page, res, got, total) ==
    [ev |-> "GET", dir |-> dirIdx, page |-> page, res |-> res, got |-> got,
     total |-> total, yielded |-> Len(doctors)]

InitRun ==
    /\ \/ mode = "batch" /\ config \in BatchConfigs
       \/ mode = "single" /\ config \in SingleArgs
    /\ pc = "start"
    /\ dirIdx = 1
    /\ specIdx = 1
    /\ gen = GenIdle
    /\ doctors = <<>>
    /\ matches = <<>>
    /\ records = <<>>
    /\ log = <<>>
    /\ files = <<>>
    /\ stdout = <<>>
    /\ error = "none"

\* run_from_config.main: load the config, validate, make the output directory.
LoadAndValidate ==
    /\ mode = "batch" /\ pc = "start"
    /\ IF validate_directories_raises(config.directories)
       THEN Abort("ConfigError")
       ELSE pc' = "dir_loop" /\ UNCHANGED error
    /\ UNCHANGED <<mode, config, dirIdx, specIdx, gen, doctors, matches, records,
                   log, files, stdout>>

\* run_specialties(url, ...): scraper.fetch_doctors(url, max_pages) creates the
\* generator; list(...) starts consuming it.
CallRunSpecialties ==
    /\ mode = "batch" /\ pc = "dir_loop" /\ dirIdx <= Len(config.directories)
    /\ gen' = [GenIdle EXCEPT !.pc = "created", !.suspended = TRUE]
    /\ doctors' = <<>>
    /\ pc' = "fetch"
    /\ UNCHANGED <<mode, config, dirIdx, specIdx, matches, records, log, files,
                   stdout, error>>

\* medicosdoc_scraper.main: parse the arguments, create the generator.
ParseArgs ==
    /\ mode = "single" /\ pc = "start"
    /\ gen' = [GenIdle EXCEPT !.pc = "created", !.suspended = TRUE]
    /\ pc' = "fetch"
    /\ UNCHANGED <<mode, config, dirIdx, specIdx, doctors, matches, records, log,
                   files, stdout, error>>

\* list(): the next() call that resumes the suspended generator.
Resume ==
    /\ pc = "fetch" /\ gen.suspended
    /\ gen' = [gen EXCEPT !.suspended = FALSE, !.resumes = @ + 1]
    /\ UNCHANGED <<mode, config, pc, dirIdx, specIdx, doctors, matches, records,
                   log, files, stdout, error>>

\* not (max_pages is not None and max_pages < 1)
MaxPagesOk == IF config.max_pages.t = "null" THEN TRUE ELSE config.max_pages.v >= 1

\* fetch_doctors: max_pages < 1 raises before anything is requested.
RaiseMaxPages ==
    /\ pc = "fetch" /\ ~gen.suspended /\ gen.pc = "created"
    /\ ~MaxPagesOk
    /\ gen' = [gen EXCEPT !.pc = "raised"]
    /\ Abort("ValueError_max_pages")
    /\ UNCHANGED <<mode, config, dirIdx, specIdx, doctors, matches, records, log,
                   files, stdout>>

\* _get_html fails (status, timeout), or _parse_initial_payload raises.
GetHtmlFails ==
    /\ pc = "fetch" /\ ~gen.suspended /\ gen.pc = "created" /\ MaxPagesOk
    /\ gen' = [gen EXCEPT !.pc = "raised"]
    /\ \E kind \in {"HTTPError", "RuntimeError_no_next_data", "RuntimeError_no_build_id",
                    "RuntimeError_no_directory_data"} :
         /\ log' = Append(log, Request(1, kind, 0, 0))
         /\ Abort(kind)
    /\ UNCHANGED <<mode, config, dirIdx, specIdx, doctors, matches, records, files,
                   stdout>>

\* _get_html and _parse_initial_payload succeed: total_pages (1 when the key
\* is missing) and the first page's entries.
GetHtmlOk ==
    /\ pc = "fetch" /\ ~gen.suspended /\ gen.pc = "created" /\ MaxPagesOk
    /\ \E total \in 0..MaxTotalPages, n \in 0..MaxPageLen :
         /\ log' = Append(log, Request(1, "ok", n, total))
         /\ gen' = [gen EXCEPT !.pc = "first", !.total_pages = total,
                               !.pages_to_fetch = pages_to_fetch(total, config.max_pages),
                               !.page = 2, !.pending = PageData(1, n)]
    /\ UNCHANGED <<mode, config, pc, dirIdx, specIdx, doctors, matches, records,
                   files, stdout, error>>

\* yield: the generator hands one entry to list() and is suspended.
YieldEntry ==
    /\ pc = "fetch" /\ ~gen.suspended /\ gen.pc \in {"first", "pages"}
    /\ gen.pending # <<>>
    /\ doctors' = Append(doctors, Head(gen.pending))
    /\ gen' = [gen EXCEPT !.pending = Tail(@), !.suspended = TRUE]
    /\ UNCHANGED <<mode, config, pc, dirIdx, specIdx, matches, records, log, files,
                   stdout, error>>

\* A paging loop that does not wait for the pending entries to be yielded:
\* what C2 rules out.
CanFetchEager ==
    /\ pc = "fetch" /\ ~gen.suspended /\ gen.pc \in {"first", "pages"}
    /\ gen.page <= gen.pages_to_fetch

\* The loop over range(2, pages_to_fetch + 1) is reached once the pending
\* entries have all been yielded.
CanFetch ==
    /\ pc = "fetch" /\ ~gen.suspended /\ gen.pc \in {"first", "pages"}
    /\ gen.pending = <<>>
    /\ gen.page <= gen.pages_to_fetch

\* A failed page that is skipped instead of raised: what C3 rules out.
FetchPageFailsSkipped ==
    /\ CanFetch
    /\ log' = Append(log, Request(gen.page, "HTTPError", 0, 0))
    /\ gen' = [gen EXCEPT !.pc = "pages", !.page = @ + 1]
    /\ error' = "HTTPError"
    /\ UNCHANGED <<mode, config, pc, dirIdx, specIdx, doctors, matches, records, files,
                   stdout>>

\* _fetch_page(page) fails (status, timeout) or the response has another shape.
FetchPageFails ==
    /\ CanFetch
    /\ gen' = [gen EXCEPT !.pc = "raised"]
    /\ \E kind \in {"HTTPError", "RuntimeError_page_shape"} :
         /\ log' = Append(log, Request(gen.page, kind, 0, 0))
         /\ Abort(kind)
    /\ UNCHANGED <<mode, config, dirIdx, specIdx, doctors, matches, records, files,
                   stdout>>

\* _fetch_page(page) returns the page's entries.
FetchPageOk ==
    /\ CanFetch
    /\ \E n \in 0..MaxPageLen :
         /\ log' = Append(log, Request(gen.page, "ok", n, 0))
         /\ gen' = [gen EXCEPT !.pc = "pages", !.page = @ + 1,
                               !.pending = PageData(gen.page, n)]
    /\ UNCHANGED <<mode, config, pc, dirIdx, specIdx, doctors, matches, records,
                   files, stdout, error>>

\* The generator returns; list() ends and the caller goes on to its
\* specialties.
GenReturn ==
    /\ pc = "fetch" /\ ~gen.suspended /\ gen.pc \in {"first", "pages"}
    /\ gen.pending = <<>>
    /\ gen.page > gen.pages_to_fetch
    /\ gen' = [gen EXCEPT !.pc = "done"]
    /\ pc' = "spec_loop"
    /\ specIdx' = 1
    /\ UNCHANGED <<mode, config, dirIdx, doctors, matches, records, log, files,
                   stdout, error>>

\* url_slug = _slugify(urlparse(url).path.rsplit("/", 1)[-1] or "directory")
url_slug(u) ==
    LET seg == LastSegment(u.path)
    IN  slugify(IF seg # <<>> THEN seg ELSE <<"d", "i", "r", "e", "c", "t", "o", "r", "y">>)

\* Where write_output writes: run_specialties' file under the output
\* directory, main's --output, or Null for standard output.
destination(u, specialty) ==
    IF mode = "single" THEN config.output
    ELSE IF Truthy(config.output)
         THEN Str(config.output.v \o <<"/">> \o url_slug(u) \o <<"-">> \o slugify(specialty)
                  \o <<".", config.output_format>>)
         ELSE Null

\* write_output for specialty number specIdx: where it went (Null: standard
\* output), how many records, and the length of the list they were filtered from.
Written(dest, n) ==
    [ev |-> "WRITE", dir |-> dirIdx, page |-> specIdx, res |-> dest, got |-> n,
     total |-> 0, yielded |-> Len(doctors)]

\* A loop body that fetches the directory again for the next specialty:
\* what C5 rules out.
ProcessSpecialtyRefetch ==
    /\ pc = "spec_loop" /\ specIdx <= Len(Entry.specialties)
    /\ LET specialty == Entry.specialties[specIdx]
           filtered == filter_by_specialty(doctors, specialty)
           recs == to_records(filtered, Entry.url)
           content == output_content(recs.v, config.output_format)
           dest == destination(Entry.url, specialty)
           printed == Append(stdout, [kind |-> "print", n |-> Len(doctors), content |-> <<>>])
       IN  /\ matches' = filtered
           /\ IF IsRaised(recs)
              THEN /\ Abort("AttributeError")
                   /\ stdout' = printed
                   /\ UNCHANGED <<records, files, log, specIdx>>
              ELSE /\ records' = recs.v
                   /\ IF IsRaised(content)
                      THEN /\ Abort("ValueError_csv")
                           /\ stdout' = printed
                           /\ UNCHANGED <<files, log, specIdx>>
                      ELSE /\ IF Truthy(dest)
                              THEN /\ files' = (dest.v :> content) @@ files
                                   /\ stdout' = printed
                              ELSE /\ stdout' = Append(printed,
                                          [kind |-> "output", n |-> 0, content |-> content])
                                   /\ UNCHANGED files
                           /\ log' = Append(log, Written(dest, Len(filtered)))
                           /\ specIdx' = specIdx + 1
                           /\ pc' = "fetch" /\ UNCHANGED error
    /\ gen' = (IF pc' = "fetch" THEN [GenIdle EXCEPT !.pc = "created", !.suspended = TRUE] ELSE gen)
    /\ doctors' = (IF pc' = "fetch" THEN <<>> ELSE doctors)
    /\ UNCHANGED <<mode, config, dirIdx>>


\* One specialty: filter_by_specialty (which prints the count), the
\* to_record comprehension, write_output.
ProcessSpecialty ==
    /\ pc = "spec_loop" /\ specIdx <= Len(Entry.specialties)
    /\ LET specialty == Entry.specialties[specIdx]
           filtered == filter_by_specialty(doctors, specialty)
           recs == to_records(filtered, Entry.url)
           content == output_content(recs.v, config.output_format)
           dest == destination(Entry.url, specialty)
           printed == Append(stdout, [kind |-> "print", n |-> Len(doctors), content |-> <<>>])
       IN  /\ matches' = filtered
           /\ IF IsRaised(recs)
              THEN /\ Abort("AttributeError")
                   /\ stdout' = printed
                   /\ UNCHANGED <<records, files, log, specIdx>>
              ELSE /\ records' = recs.v
                   /\ IF IsRaised(content)
                      THEN /\ Abort("ValueError_csv")
                           /\ stdout' = printed
                           /\ UNCHANGED <<files, log, specIdx>>
                      ELSE /\ IF Truthy(dest)
                              THEN /\ files' = (dest.v :> content) @@ files
                                   /\ stdout' = printed
                              ELSE /\ stdout' = Append(printed,
                                          [kind |-> "output", n |-> 0, content |-> content])
                                   /\ UNCHANGED files
                           /\ log' = Append(log, Written(dest, Len(filtered)))
                           /\ specIdx' = specIdx + 1
                           /\ UNCHANGED <<pc, error>>
    /\ UNCHANGED <<mode, config, dirIdx, gen, doctors>>

\* run_specialties returns; the batch goes to its next directory entry.
ReturnFromRun ==
    /\ pc = "spec_loop" /\ specIdx > Len(Entry.specialties)
    /\ IF mode = "batch"
       THEN pc' = "dir_loop" /\ dirIdx' = dirIdx + 1
       ELSE pc' = "done" /\ UNCHANGED dirIdx
    /\ UNCHANGED <<mode, config, specIdx, gen, doctors, matches, records, log, files,
                   stdout, error>>

\* run_from_config.main returns after the last directory entry.
Finish ==
    /\ mode = "batch" /\ pc = "dir_loop" /\ dirIdx > Len(config.directories)
    /\ pc' = "done"
    /\ UNCHANGED <<mode, config, dirIdx, specIdx, gen, doctors, matches, records,
                   log, files, stdout, error>>

Init == mode \in {"batch", "single"} /\ InitRun

Next ==
    \/ LoadAndValidate
    \/ CallRunSpecialties
    \/ ParseArgs
    \/ Resume
    \/ RaiseMaxPages
    \/ GetHtmlFails
    \/ GetHtmlOk
    \/ YieldEntry
    \/ FetchPageFails
    \/ FetchPageOk
    \/ GenReturn
    \/ ProcessSpecialty
    \/ ReturnFromRun
    \/ Finish

Spec == Init /\ [][Next]_vars

-----------------------------------------------------------------------------
(* The filter and the mapper on their own: the calls of main after the     *)
(* fetch (filter_by_specialty, then to_record on each match), over every   *)
(* short list of entries and every short target.                           *)

MaxDoctors == 2
MaxTargetLen == 2

BoundedSeq(S, n) == UNION {[1..k -> S] : k \in 0..n}

TargetAlphabet == {"G", "y", "e_acute", " ", "kanji"}
Targets == BoundedSeq(TargetAlphabet, MaxTargetLen)

Gey == <<"g", "e", "y">>
Ye == <<"y", "e">>

\* The SubSpecialties values of the entries filtered: none, no Specialty,
\* no name, an empty English name, names that need case folding, accent
\* folding and trimming, and a name with no ASCII character.
FilterSubs ==
    { Null,
      Obj([Specialty |-> Null]),
      Category(Null, Null),
      Category(Str(<<>>), Str(Ye)),
      Category(Null, Str(Ye)),
      Category(Str(Gey), Null),
      Category(Str(<<" ", "E_acute", "G">>), Str(Ye)),
      Category(Str(<<"kanji">>), Null) }

FilterEntries == {Listed(1, sub) : sub \in FilterSubs}

PureConfig(t) ==
    [directories |-> <<DirEntry(U1, <<t>>)>>, output_format |-> "json",
     max_pages |-> NoCap, output |-> Null]

InitFilter ==
    /\ mode = "filter"
    /\ config \in {PureConfig(t) : t \in Targets}
    /\ doctors \in BoundedSeq(FilterEntries, MaxDoctors)
    /\ pc = "filter"
    /\ dirIdx = 1 /\ specIdx = 1
    /\ gen = [GenIdle EXCEPT !.pc = "done"]
    /\ matches = <<>> /\ records = <<>>
    /\ log = <<>> /\ files = <<>> /\ stdout = <<>>
    /\ error = "none"

\* filtered = scraper.filter_by_specialty(doctors, args.specialty)
FilterStep ==
    /\ pc = "filter"
    /\ matches' = filter_by_specialty(doctors, Entry.specialties[1])
    /\ stdout' = Append(stdout, [kind |-> "print", n |-> Len(doctors), content |-> <<>>])
    /\ pc' = "map"
    /\ UNCHANGED <<mode, config, dirIdx, specIdx, gen, doctors, records, log, files,
                   error>>

\* records = [scraper.to_record(doc, args.url) for doc in filtered]
MapStep ==
    /\ pc = "map"
    /\ LET recs == to_records(matches, Entry.url)
       IN  IF IsRaised(recs)
           THEN Abort("AttributeError") /\ UNCHANGED records
           ELSE records' = recs.v /\ pc' = "mapped" /\ UNCHANGED error
    /\ UNCHANGED <<mode, config, dirIdx, specIdx, gen, doctors, matches, log, files,
                   stdout>>

NextFilter == FilterStep \/ MapStep

SpecFilter == InitFilter /\ [][NextFilter]_vars

-----------------------------------------------------------------------------
(* The mapper and the CSV writer on one entry of any shape: to_record on   *)
(* the first entry fetched, then write_output of the record as CSV.        *)

Present(x) == {Null, x}

SubShapes ==
    {Null, Obj([Specialty |-> Null])}
    \cup {Category(e, l) : e \in Present(Str(Gyn)), l \in Present(Str(Car))}

HeadShapes ==
    {Null}
    \cup { Obj([CityId |-> c, Address |-> a[1], MedicalCenter |-> a[2], Office |-> a[3]]) :
             c \in {Null, Obj([Name |-> Null]), Obj([Name |-> Str(<<"B", "o", "g">>)])},
             a \in { <<Null, Null, Null>>,
                     <<Str(<<"c", "r", "a">>), Str(<<"c", "l", "i">>), Str(<<"2", "0", "1">>)>> } }

RatingShapes ==
    {Null}
    \cup { Obj([averageRating |-> a, numberOfRatings |-> n]) :
             a \in Present(Num(5)), n \in Present(Num(12)) }

PhotoShapes ==
    { Null, Str(<<"/", "i", "m", "g", "/", "x">>),
      Str(<<"https", "://", "c", "d", "n", "/", "x">>) }

InitRecord ==
    /\ mode = "record"
    /\ config = [directories |-> <<DirEntry(U1, <<Gyn>>)>>, output_format |-> "csv",
                 max_pages |-> Num(1), output |-> Null]
    /\ \E sid \in Present(Str(<<"s", "1">>)), rid \in Present(Str(<<"r", "1">>)),
          name \in Present(Str(<<" ", "A", "n", "a">>)),
          last \in Present(Str(<<"P", "a", "z", " ">>)),
          sub \in SubShapes, head \in HeadShapes,
          hse \in Present(Str(<<"e", "c", "o">>)), hs \in Present(Str(<<"e", "c", "o", "s">>)),
          cv \in Present(Num(90)), prem \in Present(Bool(TRUE)),
          ratings \in RatingShapes, photo \in PhotoShapes :
            doctors = <<Doctor(<<sid, rid>>, name, last, sub, head, hse, hs, cv, prem,
                               ratings, photo)>>
    /\ pc = "to_record"
    /\ dirIdx = 1 /\ specIdx = 1
    /\ gen = [GenIdle EXCEPT !.pc = "done"]
    /\ matches = <<>> /\ records = <<>>
    /\ log = <<>> /\ files = <<>> /\ stdout = <<>>
    /\ error = "none"

\* record = scraper.to_record(doctors[0], BASE_URL)
ToRecordFirst ==
    /\ pc = "to_record"
    /\ LET rec == to_record(doctors[1], Entry.url)
       IN  IF IsRaised(rec)
           THEN Abort("AttributeError") /\ UNCHANGED records
           ELSE records' = <<rec>> /\ pc' = "recorded" /\ UNCHANGED error
    /\ UNCHANGED <<mode, config, dirIdx, specIdx, gen, doctors, matches, log, files,
                   stdout>>

\* write_output([record], "csv", None)
WriteFirst ==
    /\ pc = "recorded"
    /\ LET content == output_content(records, config.output_format)
       IN  IF IsRaised(content)
           THEN Abort("ValueError_csv") /\ UNCHANGED stdout
           ELSE /\ stdout' = <<[kind |-> "output", n |-> 0, content |-> content]>>
                /\ pc' = "written"
                /\ UNCHANGED error
    /\ UNCHANGED <<mode, config, dirIdx, specIdx, gen, doctors, matches, records, log,
                   files>>

NextRecord == ToRecordFirst \/ WriteFirst

SpecRecord == InitRecord /\ [][NextRecord]_vars

-----------------------------------------------------------------------------
(* Properties of the run                                                   *)

IsRun == mode \in {"batch", "single"}
Dirs == 1..Len(config.directories)

\* The requests of directory entry d, and the data pages among them.
Gets(d) == SelectSeq(log, LAMBDA e : e.ev = "GET" /\ e.dir = d)
DataGets(d) == SelectSeq(log, LAMBDA e : e.ev = "GET" /\ e.dir = d /\ e.page >= 2)
PagesRequested(d) == [i \in 1..Len(DataGets(d)) |-> DataGets(d)[i].page]
Writes(d) == SelectSeq(log, LAMBDA e : e.ev = "WRITE" /\ e.dir = d)

\* The fetch of directory entry d was consumed to its end.
Fetched(d) == d < dirIdx \/ (d = dirIdx /\ pc \in {"spec_loop", "done"})

\* 2, 3, ..., n
PagesUpTo(n) == [i \in 1..(n - 1) |-> i + 1]

\* C1: a fetch consumed to the end has requested exactly the pages
\* 2..min(totalPages, max_pages) (2..totalPages with no cap), in increasing
\* order and each once; at no time has a page above the cap or above
\* totalPages been requested, and the pages requested so far are 2, 3, ...
C1_PagesRequestedInOrder ==
    IsRun =>
      \A d \in Dirs :
        LET pages == PagesRequested(d)
            cap == config.max_pages
        IN  /\ \A i \in 1..Len(pages) : pages[i] = i + 1
            /\ cap.t # "null" => \A i \in 1..Len(pages) : pages[i] <= cap.v
            /\ pages # <<>> =>
                 /\ Gets(d)[1].page = 1 /\ Gets(d)[1].res = "ok"
                 /\ \A i \in 1..Len(pages) : pages[i] <= Gets(d)[1].total
            /\ Fetched(d) =>
                 LET total == Gets(d)[1].total
                     bound == IF cap.t = "null" THEN total
                              ELSE IF total <= cap.v THEN total ELSE cap.v
                 IN  pages = PagesUpTo(bound)

\* totalPages 3 and max_pages 2: the fetch ended having requested page 2 only.
C1_Witness ==
    /\ IsRun /\ pc = "spec_loop" /\ dirIdx = 1
    /\ config.max_pages = Num(2)
    /\ gen.total_pages = 3
    /\ PagesRequested(1) = <<2>>

\* C2: when a data page is requested, every entry of the first page has
\* been yielded; while the caller has made no more next() calls than the
\* first page has entries, and whenever max_pages is 1, no data page has
\* been requested.
C2_FirstPageYieldedBeforeRequests ==
    IsRun =>
      \A d \in Dirs :
        /\ \A i \in 1..Len(DataGets(d)) :
             /\ Gets(d)[1].page = 1 /\ Gets(d)[1].res = "ok"
             /\ DataGets(d)[i].yielded >= Gets(d)[1].got
        /\ config.max_pages = Num(1) => DataGets(d) = <<>>
        /\ (d = dirIdx /\ pc = "fetch" /\ gen.pc \in {"first", "pages"}
              /\ gen.resumes <= Gets(d)[1].got) => DataGets(d) = <<>>

\* Page 2 was requested after the two entries of the first page were yielded.
C2_Witness ==
    /\ IsRun
    /\ Len(Gets(1)) >= 2
    /\ Gets(1)[1].got = 2
    /\ Gets(1)[2].page = 2 /\ Gets(1)[2].yielded = 2

Last(q) == q[Len(q)]

\* C3 as stated: after a failed HTTP request the run is aborted and no
\* output has been written from the entries fetched in the run.
C3_NoOutputAfterFailure ==
    (IsRun /\ error = "HTTPError") =>
        /\ pc = "aborted"
        /\ files = <<>>
        /\ \A i \in 1..Len(log) : log[i].ev # "WRITE"

\* C3, amended: after a failed HTTP request the run is aborted with that
\* failure and takes no further step; the failed request is the last event
\* and its page was requested once; no request before it failed; nothing
\* was written for the directory being fetched (a single run has written
\* nothing at all).  Outputs of directories processed earlier remain.
C3_FailureAbortsRun ==
    (IsRun /\ error = "HTTPError") =>
        /\ pc = "aborted"
        /\ ~ENABLED Next
        /\ Last(log).ev = "GET" /\ Last(log).res = "HTTPError" /\ Last(log).dir = dirIdx
        /\ \A i \in 1..(Len(log) - 1) : log[i].ev = "GET" => log[i].res = "ok"
        /\ Len(SelectSeq(Gets(dirIdx), LAMBDA e : e.page = Last(log).page)) = 1
        /\ Writes(dirIdx) = <<>>
        /\ mode = "single" =>
             /\ files = <<>>
             /\ \A i \in 1..Len(stdout) : stdout[i].kind # "output"

\* A data page failed after entries had been yielded: they are discarded.
C3_Witness ==
    /\ IsRun /\ pc = "aborted" /\ error = "HTTPError"
    /\ doctors # <<>>
    /\ Last(log).page >= 2

\* C4: a batch whose directories array holds an entry without url or
\* without a specialties list makes no request and writes nothing, and
\* ends with the configuration error, wherever the entry stands.
C4_InvalidConfigFailsFast ==
    (mode = "batch"
       /\ \E i \in Dirs : ~config.directories[i].has_url
                            \/ config.directories[i].specialties_kind # "list") =>
        /\ log = <<>> /\ files = <<>> /\ stdout = <<>>
        /\ pc \in {"start", "aborted"}
        /\ pc = "aborted" => error = "ConfigError"

\* The invalid entry is the second one; the valid first entry was not fetched.
C4_Witness ==
    /\ mode = "batch" /\ pc = "aborted" /\ error = "ConfigError"
    /\ Len(config.directories) = 2
    /\ config.directories[1].has_url
    /\ config.directories[1].specialties_kind = "list"
    /\ log = <<>>

\* C5: in a batch, each directory entry's HTML and each of its data pages
\* are requested at most once, and exactly one HTML request was made for an
\* entry whose fetch ended; no request of an entry follows a write of that
\* entry; every write of an entry was filtered from a list of the same
\* length, and an entry that was processed has one write per specialty.
C5_FetchedOncePerDirectory ==
    mode = "batch" =>
      \A d \in Dirs :
        /\ \A i, j \in 1..Len(Gets(d)) : Gets(d)[i].page = Gets(d)[j].page => i = j
        /\ Fetched(d) =>
             Len(SelectSeq(Gets(d), LAMBDA e : e.page = 1)) = 1
        /\ \A i, j \in 1..Len(log) :
             (i < j /\ log[i].ev = "WRITE" /\ log[i].dir = d) =>
               ~(log[j].ev = "GET" /\ log[j].dir = d)
        /\ \A i, j \in 1..Len(Writes(d)) : Writes(d)[i].yielded = Writes(d)[j].yielded
        /\ d < dirIdx => Len(Writes(d)) = Len(config.directories[d].specialties)

\* A directory with two specialties was fetched once and written twice.
C5_Witness ==
    /\ mode = "batch" /\ pc = "done"
    /\ config.directories # <<>>
    /\ Len(config.directories[1].specialties) = 2
    /\ Len(Writes(1)) = 2
    /\ Len(Gets(1)) >= 2

\* C8: after a batch run with an output directory, there are as many output
\* files as (directory, specialty) pairs were written.
C8_OneFilePerPair ==
    (mode = "batch" /\ pc = "done" /\ Truthy(config.output)) =>
        Cardinality(DOMAIN files) =
            Len(SelectSeq(log, LAMBDA e : e.ev = "WRITE"))

-----------------------------------------------------------------------------
(* Properties of the filter and of the mapper                              *)

Target == config.directories[1].specialties[1]

\* t occurs in s as a run of consecutive characters
Contains(s, t) ==
    \E i \in 0..Len(s), j \in 0..Len(s) : i <= j /\ SubSeq(s, i + 1, j) = t

\* The category name of an entry: the English name if there is one, else
\* the localized name; Null when the entry has no category.
CategoryName(d) ==
    LET sub == d.v.SubSpecialties
    IN  IF sub.t # "obj" THEN Null
        ELSE IF sub.v.Specialty.t # "obj" THEN Null
        ELSE IF Truthy(sub.v.Specialty.v.SpecialityNameEnglish)
             THEN sub.v.Specialty.v.SpecialityNameEnglish
             ELSE sub.v.Specialty.v.SpecialityName

Selected(d) ==
    /\ Truthy(CategoryName(d))
    /\ Contains(normalize_text(CategoryName(d).v), normalize_text(Target))

\* C6: filter_by_specialty returns the subsequence of its input made of the
\* entries that have a category name whose normalized form contains the
\* normalized target; entries without a category name are left out.
C6_FilterIsStableSelection ==
    (mode = "filter" /\ pc # "filter") =>
        /\ matches = SelectSeq(doctors, Selected)
        /\ \A i \in 1..Len(matches) : Truthy(CategoryName(matches[i]))

\* Of two entries the first has no category and is left out, the second
\* matches a target that needs case and accent folding.
C6_Witness ==
    /\ mode = "filter" /\ pc = "map"
    /\ Target = <<"G", "e_acute">>
    /\ Len(doctors) = 2
    /\ doctors[1].v.SubSpecialties = Null
    /\ matches = <<doctors[2]>>

Field(rec, key) == rec.v[CHOOSE i \in 1..Len(rec.v) : rec.v[i][1] = key][2]

\* C10: every record made from a filtered entry has a non-empty specialty
\* whose normalized form contains the normalized target.
C10_FilterAndMapperAgree ==
    (mode = "filter" /\ pc = "mapped") =>
        /\ Len(records) = Len(matches)
        /\ \A i \in 1..Len(records) :
             LET sp == Field(records[i], "specialty")
             IN  /\ sp.t = "str" /\ sp.v # <<>>
                 /\ Contains(normalize_text(sp.v), normalize_text(Target))

\* An entry with an English and a localized name was matched on the English
\* one and its record carries it.
C10_Witness ==
    /\ mode = "filter" /\ pc = "mapped"
    /\ Target = <<"G">>
    /\ Len(records) = 1
    /\ Field(records[1], "specialty") = Str(<<" ", "E_acute", "G">>)

-----------------------------------------------------------------------------
(* Properties of the mapper on entries of any shape                        *)

Keys(rec) == [i \in 1..Len(rec.v) |-> rec.v[i][1]]

D == doctors[1].v
Absent(x) == x.t = "null"
IsNull(x) == x.t = "null"
HeadAbsent == Absent(D.Headquarters)
CategoryAbsent ==
    IF Absent(D.SubSpecialties) THEN TRUE
    ELSE IF Absent(D.SubSpecialties.v.Specialty) THEN TRUE
    ELSE /\ Absent(D.SubSpecialties.v.Specialty.v.SpecialityNameEnglish)
         /\ Absent(D.SubSpecialties.v.Specialty.v.SpecialityName)
CityAbsent ==
    IF HeadAbsent THEN TRUE
    ELSE IF Absent(D.Headquarters.v.CityId) THEN TRUE
    ELSE Absent(D.Headquarters.v.CityId.v.Name)
HeadFieldAbsent(k) == IF HeadAbsent THEN TRUE ELSE Absent(D.Headquarters.v[k])
RatingAbsent(k) ==
    IF Absent(D.RatingsSummary) THEN TRUE ELSE Absent(D.RatingsSummary.v[k])

R(key) == Field(records[1], key)

\* The fields that are null when their source is absent.
NullWhenAbsent ==
    /\ (Absent(D.ShortId) /\ Absent(D._id)) => IsNull(R("id"))
    /\ CityAbsent => IsNull(R("city"))
    /\ HeadFieldAbsent("Address") => IsNull(R("address"))
    /\ HeadFieldAbsent("MedicalCenter") => IsNull(R("medical_center"))
    /\ HeadFieldAbsent("Office") => IsNull(R("office"))
    /\ (Absent(D.HighlightedServicesEnglish) /\ Absent(D.HighlightedServices)) =>
         IsNull(R("highlighted_services"))
    /\ Absent(D.ConsultValue) => IsNull(R("consult_value"))
    /\ RatingAbsent("averageRating") => IsNull(R("rating_average"))
    /\ RatingAbsent("numberOfRatings") => IsNull(R("rating_count"))

\* C7 as stated: to_record never raises, and every field whose source is
\* absent is null.
C7_AbsentFieldsAreNull ==
    mode = "record" =>
        /\ error = "none"
        /\ pc # "to_record" =>
             /\ Len(records) = 1
             /\ NullWhenAbsent
             /\ (Absent(D.Name) /\ Absent(D.LastName)) => IsNull(R("name"))
             /\ CategoryAbsent => IsNull(R("specialty"))
             /\ Absent(D.Premium) => IsNull(R("premium"))
             /\ Absent(D.Photos) => IsNull(R("photo_url"))

\* C7, amended: to_record never raises and returns one record; id, city,
\* address, medical_center, office, highlighted_services, consult_value,
\* rating_average and rating_count are null when their source is absent;
\* with absent sources name and specialty are the empty text, premium is
\* false and photo_url is the root URL of the directory.
C7_ToRecordIsTotal ==
    mode = "record" =>
        /\ error = "none"
        /\ pc # "to_record" =>
             /\ Len(records) = 1
             /\ NullWhenAbsent
             /\ (Absent(D.Name) /\ Absent(D.LastName)) => R("name") = Str(<<>>)
             /\ CategoryAbsent => R("specialty") = Str(<<>>)
             /\ Absent(D.Premium) => R("premium") = Bool(FALSE)
             /\ Absent(D.Photos) => R("photo_url") = Str(<<"https", "://", "h", "1", "/">>)

\* The entry with nothing but absent fields was mapped to a record.
C7_Witness ==
    /\ mode = "record" /\ pc = "recorded"
    /\ \A k \in DOMAIN D : Absent(D[k])
    /\ Len(records) = 1

ThirteenFields ==
    <<"id", "name", "specialty", "city", "address", "medical_center", "office",
      "highlighted_services", "consult_value", "premium", "rating_average",
      "rating_count", "photo_url">>

\* C9: the record of to_record has exactly the thirteen fields, in order,
\* whatever the entry lacks; the CSV header written is that sequence and
\* every CSV row has thirteen cells.
C9_ThirteenFieldsInOrder ==
    mode = "record" =>
        /\ pc # "aborted"
        /\ pc \in {"recorded", "written"} =>
             /\ Len(ThirteenFields) = 13
             /\ Keys(records[1]) = ThirteenFields
        /\ pc = "written" =>
             /\ stdout[1].content.header = Keys(records[1])
             /\ \A i \in 1..Len(stdout[1].content.rows) :
                  Len(stdout[1].content.rows[i].v) = 13

\* An entry without headquarters, ratings and photo was written as CSV.
C9_Witness ==
    /\ mode = "record" /\ pc = "written"
    /\ HeadAbsent /\ Absent(D.RatingsSummary) /\ Absent(D.Photos)
    /\ ~Absent(D.ShortId)
    /\ Len(stdout[1].content.rows) = 1

====
